---------------------------- MODULE Spec2Model ----------------------------
(***************************************************************************)
(* Ledger core of the pyrsia blockchain node: the Blockchain orchestrator  *)
(* (blockchain.rs), Block (structures/block.rs), Transaction               *)
(* (structures/transaction.rs) and the earlier observer-only               *)
(* implementation of the same methods (notifier.rs).                       *)
(*                                                                         *)
(* Cryptography is idealised: a digest, an encoding and a signature are    *)
(* injective tagged values, and two draws of the 128-bit random nonce      *)
(* never coincide (the draws are numbered).                                *)
(***************************************************************************)
EXTENDS Integers, Sequences, FiniteSets, TLC

\* ------------------------------------------------------------- bounds
MaxCalls    == 4   \* calls made on the Blockchain after Blockchain::new
MaxBlockTxs == 1   \* transactions in a block handed to add_block from outside

\* the keypair Blockchain::new is given, and the keypair of another node
LocalKey == "k1"
PeerKey  == "k2"
Payloads   == {"Hello First Transaction", "some transaction"}

\* --------------------------------------------- cryptography and encodings
Public(key) == <<"public", key>>

Address(public_key) == <<"address", public_key>>

Bincode(value) == <<"bincode", value>>

Json(payload) == <<"json", payload>>

HashDigest(bytes) == <<"digest", bytes>>

SignatureNew(msg, key) == [signature |-> <<"ed25519", Public(key), msg>>]

SignatureVerify(sig, msg, key) == sig = SignatureNew(msg, key)

\* ----------------------------------------------------------- transaction
\* mutant: the nonce is left out of the hashed bytes
calculate_hash_without_nonce(partial) ==
    HashDigest(Bincode([partial EXCEPT !.nonce = ""]))

calculate_hash(partial) == HashDigest(Bincode(partial))

\* mutant: the signature is made over the payload, not over the hash
convert_to_transaction_signs_payload(partial, key) ==
    [submitter |-> partial.submitter,
     timestamp |-> partial.timestamp,
     payload   |-> partial.payload,
     nonce     |-> partial.nonce,
     hash      |-> calculate_hash(partial),
     signature |-> SignatureNew(Bincode(partial.payload), key)]

convert_to_transaction(partial, key) ==
    [submitter |-> partial.submitter,
     timestamp |-> partial.timestamp,
     payload   |-> partial.payload,
     nonce     |-> partial.nonce,
     hash      |-> calculate_hash(partial),
     signature |-> SignatureNew(Bincode(calculate_hash(partial)), key)]

\* Transaction::new; `time` is the clock reading, `nonce` the random draw
TransactionNew(sub, payload, key, time, nonce) ==
    convert_to_transaction(
        [submitter |-> sub, timestamp |-> time, payload |-> payload, nonce |-> nonce],
        key)

\* ----------------------------------------------------------------- block
HeaderNew(parent_hash, transactions_hash, committer, ordinal, time, nonce) ==
    [parent_hash       |-> parent_hash,
     transactions_hash |-> transactions_hash,
     committer         |-> committer,
     timestamp         |-> time,
     ordinal           |-> ordinal,
     nonce             |-> nonce,
     hash              |-> HashDigest(Bincode(<<parent_hash, transactions_hash,
                                                committer, time, ordinal, nonce>>))]

format_header(header) == Bincode(header.hash)

\* mutant: the signature is made over the parent hash, not over the header hash
BlockNewSignsParent(parent_hash, ordinal, transactions, signing_key, time, nonce) ==
    LET header == HeaderNew(parent_hash, HashDigest(Bincode(transactions)),
                            Address(Public(signing_key)), ordinal, time, nonce)
    IN  [header       |-> header,
         transactions |-> transactions,
         signing_key  |-> signing_key,
         signature    |-> SignatureNew(Bincode(parent_hash), signing_key)]

BlockNew(parent_hash, ordinal, transactions, signing_key, time, nonce) ==
    LET header == HeaderNew(parent_hash, HashDigest(Bincode(transactions)),
                            Address(Public(signing_key)), ordinal, time, nonce)
    IN  [header       |-> header,
         transactions |-> transactions,
         signing_key  |-> signing_key,
         signature    |-> SignatureNew(format_header(header), signing_key)]

BlockVerify(block) ==
    SignatureVerify(block.signature, format_header(block.header), block.signing_key)

\* build_path_for_block: the file is named by the last segment of block.id(), the
\* header hash as a string
build_path_for_block(block) == <<"temp_dir", block.header.hash, ".json">>

\* the Result of Block::verify
verify(block) == IF BlockVerify(block) THEN "Ok" ELSE "Signature verification fail"

\* ------------------------------------------------------ genesis constant
\* the embedded constant is the output of generate_genesis, pasted in as JSON
GenesisTimestamp == 1652285632
GenesisOrdinal   == 0
GenesisNonce     == "303860116025340289318370235156069422466"
GenesisTransactionNonce == "227996946057909480709948369727184084395"

\* HashDigest::new("".as_bytes())
EmptyDigest == HashDigest(<<>>)

GenesisTransaction ==
    TransactionNew(Address(Public("genesis")), Json("AddAuthority"), "genesis",
                   GenesisTimestamp, GenesisTransactionNonce)

\* BlockKeypair::from_str ignores the text it is given and generates a keypair
BlockKeypairFromStr(text) == "generated"

GENESIS_BLOCK ==
    [BlockNew(EmptyDigest, GenesisOrdinal, <<GenesisTransaction>>, "genesis",
              GenesisTimestamp, GenesisNonce)
       EXCEPT !.signing_key = BlockKeypairFromStr("")]

\* ----------------------------------------------------------- the key file
\* the bytes of an encoded ed25519 keypair: let mut buf = [0u8; 64]
KeypairLength == 64

\* a file is its length and, when it holds KeypairLength bytes or more, the
\* keypair its first KeypairLength bytes encode ("garbage": no keypair)
NoFile == [exists |-> FALSE, len |-> 0, key |-> ""]

\* OpenOptions write + create, no truncate: the first KeypairLength bytes are
\* overwritten, a longer file keeps its tail
write_keypair(file, key) ==
    [exists |-> TRUE,
     len    |-> IF file.len > KeypairLength THEN file.len ELSE KeypairLength,
     key    |-> key]

read_keypair(file) ==
    IF ~file.exists
    THEN [ok |-> FALSE, data |-> "", err |-> "NotFound"]
    ELSE IF file.len >= KeypairLength
         THEN [ok |-> TRUE, data |-> file.key, err |-> ""]
         ELSE [ok |-> FALSE, data |-> "", err |-> "InvalidData"]

\* Keypair::decode(data): an error for bytes that encode no keypair
KeypairDecode(data) ==
    IF data = "garbage" THEN [ok |-> FALSE, key |-> ""] ELSE [ok |-> TRUE, key |-> data]

\* `generated` is the keypair Keypair::generate() yields if it is called
create_ed25519_keypair(file, generated) ==
    LET v == read_keypair(file)
    IN  IF v.ok
        THEN IF KeypairDecode(v.data).ok
             THEN [outcome |-> "returned", key |-> KeypairDecode(v.data).key, file |-> file]
             ELSE [outcome |-> "panicked", key |-> "", file |-> file]
        ELSE [outcome |-> "returned", key |-> generated,
              file |-> write_keypair(file, generated)]

\* ------------------------------------------------------------------ state
VARIABLES
    chain,                \* chain.blocks: Vec<Block>
    pending_transaction,  \* HashSet<Transaction>
    trans_observers,      \* HashMap<Transaction, Box<dyn FnOnce(Transaction)>>
    block_observers,      \* Vec<Box<dyn FnMut(Block)>>
    keypair,              \* the orchestrator's BlockKeypair
    submitter,            \* the orchestrator's Address
    keyfile,              \* the key file create_ed25519_keypair reads and writes
    calls,                \* number of calls made after construction
    closures,             \* number of settlement closures created so far
    on_settled,           \* the closure each registered transaction was registered with
    settled,              \* every settlement closure invocation so far, in order
    call                  \* the most recent call: its inputs, events and outcome

vars == <<chain, pending_transaction, trans_observers, block_observers,
          keypair, submitter, keyfile, calls, closures, on_settled, settled, call>>

\* the persistence observer registered by Blockchain::new
WriteBlock == 0

\* SystemTime::now() in whole seconds since the epoch; nothing branches on it
Clock == {GenesisTimestamp + 1}

\* rand::thread_rng().gen::<u128>(): the n-th draw made for a transaction, and the
\* draw made for the header of the block at position n; no two draws coincide
TransactionNonce(n) == "transaction draw " \o ToString(n)

HeaderNonce(n) == "header draw " \o ToString(n)

Last(seq) == seq[Len(seq)]

Range(seq) == {seq[i] : i \in 1..Len(seq)}

\* HashMap::insert and HashMap::remove on trans_observers
MapInsert(map, key, value) == [k \in DOMAIN map \cup {key} |-> IF k = key THEN value ELSE map[k]]

MapRemove(map, key) == [k \in DOMAIN map \ {key} |-> map[k]]

EmptyMap == [k \in {} |-> 0]

\* one callback invocation: which closure ran, and the value it was given
Event(kind, target, arg) == [kind |-> kind, target |-> target, arg |-> arg]

\* the orders in which HashSet::drain may yield the pool
Orderings(set) ==
    {s \in [1..Cardinality(set) -> set] : \A i, j \in DOMAIN s : i # j => s[i] # s[j]}

\* --------------------------------------------------- settlement protocol
\* mutant: the registration is read with get() and left in the table
notify_transaction_settled_keep(m, trans) ==
    IF trans \in DOMAIN m.obs
    THEN [obs |-> m.obs,
          ev  |-> Append(m.ev, Event("settled", m.obs[trans], trans))]
    ELSE m

\* mutant: registrations are looked up by payload alone, as if Transaction's Eq
\* and Hash compared the payload only
notify_transaction_settled_by_payload(m, trans) ==
    IF \E k \in DOMAIN m.obs : k.payload = trans.payload
    THEN LET k == CHOOSE k \in DOMAIN m.obs : k.payload = trans.payload
         IN  [obs |-> MapRemove(m.obs, k),
              ev  |-> Append(m.ev, Event("settled", m.obs[k], trans))]
    ELSE m

\* mutant: when the transaction has no registration, some registered closure is
\* taken and called instead
notify_transaction_settled_any(m, trans) ==
    IF trans \in DOMAIN m.obs
    THEN [obs |-> MapRemove(m.obs, trans),
          ev  |-> Append(m.ev, Event("settled", m.obs[trans], trans))]
    ELSE IF DOMAIN m.obs # {}
         THEN LET k == CHOOSE k \in DOMAIN m.obs : TRUE
              IN  [obs |-> MapRemove(m.obs, k),
                   ev  |-> Append(m.ev, Event("settled", m.obs[k], trans))]
         ELSE m

\* m = [obs, ev]: trans_observers and the invocations made so far in this call
notify_transaction_settled(m, trans) ==
    IF trans \in DOMAIN m.obs
    THEN [obs |-> MapRemove(m.obs, trans),
          ev  |-> Append(m.ev, Event("settled", m.obs[trans], trans))]
    ELSE m

RECURSIVE SettleEach(_, _)
SettleEach(m, transactions) ==
    IF transactions = <<>>
    THEN m
    ELSE SettleEach(notify_transaction_settled(m, Head(transactions)), Tail(transactions))

\* mutant: the observers are invoked last-registered first
RECURSIVE InvokeObserversReversed(_, _, _, _)
InvokeObserversReversed(listeners, block, io_ok, ev) ==
    IF listeners = <<>>
    THEN [ev |-> ev, outcome |-> "returned"]
    ELSE LET e == Append(ev, Event("block", Last(listeners), block))
         IN  IF Last(listeners) = WriteBlock /\ ~io_ok
             THEN [ev |-> e, outcome |-> "panicked"]
             ELSE InvokeObserversReversed(SubSeq(listeners, 1, Len(listeners) - 1),
                                          block, io_ok, e)

\* mutant: only the first observer is invoked
InvokeObserversFirstOnly(listeners, block, io_ok, ev) ==
    IF listeners = <<>>
    THEN [ev |-> ev, outcome |-> "returned"]
    ELSE [ev      |-> Append(ev, Event("block", Head(listeners), block)),
          outcome |-> IF Head(listeners) = WriteBlock /\ ~io_ok
                      THEN "panicked" ELSE "returned"]

\* block_observers.iter_mut().for_each(|notify| notify(block.clone())); the
\* persistence observer panics when write_block returns an error
RECURSIVE InvokeObservers(_, _, _, _)
InvokeObservers(listeners, block, io_ok, ev) ==
    IF listeners = <<>>
    THEN [ev |-> ev, outcome |-> "returned"]
    ELSE LET e == Append(ev, Event("block", Head(listeners), block))
         IN  IF Head(listeners) = WriteBlock /\ ~io_ok
             THEN [ev |-> e, outcome |-> "panicked"]
             ELSE InvokeObservers(Tail(listeners), block, io_ok, e)

\* mutant: only the block observers are notified, no transaction is settled
notify_block_event_observers_only(obs, listeners, block, io_ok) ==
    LET b == InvokeObservers(listeners, block, io_ok, <<>>)
    IN  [obs |-> obs, ev |-> b.ev, outcome |-> b.outcome]

\* mutant: the transactions are settled before the block observers are notified
notify_block_event_settle_first(obs, listeners, block, io_ok) ==
    LET m == SettleEach([obs |-> obs, ev |-> <<>>], block.transactions)
        b == InvokeObservers(listeners, block, io_ok, m.ev)
    IN  [obs |-> m.obs, ev |-> b.ev, outcome |-> b.outcome]

notify_block_event(obs, listeners, block, io_ok) ==
    LET b == InvokeObservers(listeners, block, io_ok, <<>>)
    IN  IF b.outcome = "panicked"
        THEN [obs |-> obs, ev |-> b.ev, outcome |-> "panicked"]
        ELSE LET m == SettleEach([obs |-> obs, ev |-> b.ev], block.transactions)
             IN  [obs |-> m.obs, ev |-> m.ev, outcome |-> "returned"]

IsSettled(e) == e.kind = "settled"

IsBlock(e) == e.kind = "block"

\* the settlement invocations among `ev`, in order
SettledIn(ev) == SelectSeq(ev, IsSettled)

\* the block observer invocations among `ev`, in order
BlockIn(ev) == SelectSeq(ev, IsBlock)

\* ------------------------------------------------------------- operations
\* mutant: the genesis block is not pushed
NewChainEmpty == <<>>

\* mutant: the genesis block is pushed twice
NewChainGenesisTwice == <<GENESIS_BLOCK, GENESIS_BLOCK>>

\* Blockchain::new: chain.blocks after the genesis block is pushed
NewChain == <<GENESIS_BLOCK>>

NewCall(op) ==
    [op |-> op, outcome |-> "returned", events |-> <<>>,
     trans |-> <<>>, closure |-> 0,
     pool |-> pending_transaction, registered |-> trans_observers, len |-> Len(chain)]

Init ==
    /\ keypair = LocalKey
    /\ submitter = Address(Public(keypair))
    /\ keyfile = write_keypair(NoFile, LocalKey)
    /\ chain = NewChain
    /\ trans_observers = EmptyMap
    /\ pending_transaction = {}
    /\ block_observers = <<WriteBlock>>
    /\ calls = 0
    /\ closures = 0
    /\ on_settled = EmptyMap
    /\ settled = <<>>
    /\ call = [op |-> "new", outcome |-> "returned", events |-> <<>>,
               trans |-> <<>>, closure |-> 0,
               pool |-> {}, registered |-> EmptyMap, len |-> 0]

\* mutant: the block is inserted at the head
PushFront(blocks, block) == <<block>> \o blocks

\* chain.blocks.push(block)
Push(blocks, block) == Append(blocks, block)

\* add_block: push, then notify_block_event on a clone of the new tip
add_block(block, io_ok, op) ==
    LET r == notify_block_event(trans_observers, block_observers, Last(Push(chain, block)), io_ok)
    IN  /\ chain' = Push(chain, block)
        /\ trans_observers' = r.obs
        /\ settled' = settled \o SettledIn(r.ev)
        /\ call' = [NewCall(op) EXCEPT !.outcome = r.outcome, !.events = r.ev]

\* mutant: the pool is read with iter() and keeps its transactions
DrainedNothing(pool) == pool

\* the pool that pending_transaction.drain() leaves behind
Drained(pool) == {}

\* mutant: the new block repeats the ordinal of the tip
SaveBlockSameOrdinal(last, txs, key, time, nonce) ==
    BlockNew(last.header.hash, last.header.ordinal, txs, key, time, nonce)

\* mutant: the drained transactions are not handed to Block::new
SaveBlockEmpty(last, txs, key, time, nonce) ==
    BlockNew(last.header.hash, last.header.ordinal + 1, <<>>, key, time, nonce)

\* the block save() builds on the tip `last`
SaveBlock(last, txs, key, time, nonce) ==
    BlockNew(last.header.hash, last.header.ordinal + 1, txs, key, time, nonce)

Save ==
    /\ calls < MaxCalls
    /\ calls' = calls + 1
    /\ \E txs \in Orderings(pending_transaction), time \in Clock, io_ok \in BOOLEAN :
          /\ pending_transaction' = Drained(pending_transaction)
          /\ add_block(SaveBlock(Last(chain), txs, keypair, time, HeaderNonce(Len(chain))), io_ok, "save")
    /\ UNCHANGED <<block_observers, keypair, submitter, keyfile, closures, on_settled>>

SubmitTransaction ==
    /\ calls < MaxCalls
    /\ calls' = calls + 1
    /\ \E payload \in Payloads, time \in Clock :
          LET trans == TransactionNew(submitter, Json(payload), keypair, time,
                                        TransactionNonce(closures))
          IN  /\ trans_observers' = MapInsert(trans_observers, trans, closures + 1)
              /\ on_settled' = MapInsert(on_settled, trans, closures + 1)
              /\ pending_transaction' = pending_transaction \cup {trans}
              /\ call' = [NewCall("submit_transaction") EXCEPT !.trans = <<trans>>,
                                                              !.closure = closures + 1]
    /\ closures' = closures + 1
    /\ UNCHANGED <<chain, block_observers, keypair, submitter, keyfile, settled>>

\* the transactions a caller can hold: read from blocks(), or returned by
\* submit_transaction
KnownTransactions ==
    pending_transaction \cup DOMAIN trans_observers
        \cup UNION {Range(chain[i].transactions) : i \in 1..Len(chain)}

Submitted == KnownTransactions \ {GenesisTransaction}

NotifyTransactionSettled ==
    /\ calls < MaxCalls
    /\ calls' = calls + 1
    /\ \E trans \in KnownTransactions :
          LET m == notify_transaction_settled([obs |-> trans_observers, ev |-> <<>>], trans)
          IN  /\ trans_observers' = m.obs
              /\ settled' = settled \o SettledIn(m.ev)
              /\ call' = [NewCall("notify_transaction_settled") EXCEPT !.events = m.ev,
                                                                      !.trans = <<trans>>]
    /\ UNCHANGED <<chain, pending_transaction, block_observers, keypair, submitter, keyfile,
                   closures, on_settled>>

\* mutant: the new listener is put in front of the others
AddBlockListenerFront ==
    /\ calls < MaxCalls
    /\ calls' = calls + 1
    /\ block_observers' = <<Len(block_observers)>> \o block_observers
    /\ call' = NewCall("add_block_listener")
    /\ UNCHANGED <<chain, pending_transaction, trans_observers, keypair, submitter, keyfile,
                   closures, on_settled, settled>>

\* mutant: the new listener is called at once with the block at the tip
AddBlockListenerReplays ==
    /\ calls < MaxCalls
    /\ calls' = calls + 1
    /\ block_observers' = Append(block_observers, Len(block_observers))
    /\ call' = [NewCall("add_block_listener") EXCEPT
                   !.events = <<Event("block", Len(block_observers), Last(chain))>>]
    /\ UNCHANGED <<chain, pending_transaction, trans_observers, keypair, submitter, keyfile,
                   closures, on_settled, settled>>

AddBlockListener ==
    /\ calls < MaxCalls
    /\ calls' = calls + 1
    /\ block_observers' = Append(block_observers, Len(block_observers))
    /\ call' = NewCall("add_block_listener")
    /\ UNCHANGED <<chain, pending_transaction, trans_observers, keypair, submitter, keyfile,
                   closures, on_settled, settled>>

NotifyBlockEvent ==
    /\ calls < MaxCalls
    /\ calls' = calls + 1
    /\ \E i \in 1..Len(chain), io_ok \in BOOLEAN :
          LET r == notify_block_event(trans_observers, block_observers, chain[i], io_ok)
          IN  /\ trans_observers' = r.obs
              /\ settled' = settled \o SettledIn(r.ev)
              /\ call' = [NewCall("notify_block_event") EXCEPT !.outcome = r.outcome,
                                                              !.events = r.ev]
    /\ UNCHANGED <<chain, pending_transaction, block_observers, keypair, submitter, keyfile,
                   closures, on_settled>>

\* sequences of at most n elements of a set
SeqsUpTo(set, n) == UNION {[1..k -> set] : k \in 0..n}

\* blocks another node built with Block::new and hands to add_block: on the tip,
\* or, as in the tests of block.rs, on the empty digest with ordinal 1
ExternalBlocks(time, nonce) ==
    {BlockNew(link[1], link[2], txs, key, time, nonce) :
        link \in {<<Last(chain).header.hash, Last(chain).header.ordinal + 1>>,
                  <<EmptyDigest, 1>>},
        txs \in SeqsUpTo(Submitted, MaxBlockTxs),
        key \in {PeerKey}}

AddBlock ==
    /\ calls < MaxCalls
    /\ calls' = calls + 1
    /\ \E time \in Clock, io_ok \in BOOLEAN :
          \E block \in ExternalBlocks(time, HeaderNonce(Len(chain))) :
              add_block(block, io_ok, "add_block")
    /\ UNCHANGED <<pending_transaction, block_observers, keypair, submitter, keyfile, closures,
                   on_settled>>

Next ==
    \/ SubmitTransaction
    \/ Save
    \/ AddBlock
    \/ NotifyTransactionSettled
    \/ AddBlockListener
    \/ NotifyBlockEvent

Spec == Init /\ [][Next]_vars

\* ------------------------------------------- notifier.rs: the observer table
\* the earlier implementation of the same methods: submit_transaction takes the
\* Transaction from its caller and only registers the callback, and
\* notify_block_event only runs the block observers
NotifierTransactions ==
    {TransactionNew(submitter, Json(payload), keypair, time, TransactionNonce(n)) :
        payload \in Payloads, time \in Clock, n \in {0, 1}}

NotifierBlocks ==
    {GENESIS_BLOCK} \cup
    {BlockNew(EmptyDigest, 1, txs, PeerKey, time, HeaderNonce(1)) :
        txs \in SeqsUpTo(NotifierTransactions, MaxBlockTxs), time \in Clock}

NotifierSubmitTransaction ==
    /\ calls < MaxCalls
    /\ calls' = calls + 1
    /\ \E trans \in NotifierTransactions :
          /\ trans_observers' = MapInsert(trans_observers, trans, closures + 1)
          /\ on_settled' = MapInsert(on_settled, trans, closures + 1)
          /\ call' = [NewCall("submit_transaction") EXCEPT !.trans = <<trans>>,
                                                          !.closure = closures + 1]
    /\ closures' = closures + 1
    /\ UNCHANGED <<chain, pending_transaction, block_observers, keypair, submitter, keyfile,
                   settled>>

NotifierNotifyTransactionSettled ==
    /\ calls < MaxCalls
    /\ calls' = calls + 1
    /\ \E trans \in NotifierTransactions :
          LET m == notify_transaction_settled([obs |-> trans_observers, ev |-> <<>>], trans)
          IN  /\ trans_observers' = m.obs
              /\ settled' = settled \o SettledIn(m.ev)
              /\ call' = [NewCall("notify_transaction_settled") EXCEPT !.events = m.ev,
                                                                      !.trans = <<trans>>]
    /\ UNCHANGED <<chain, pending_transaction, block_observers, keypair, submitter, keyfile,
                   closures, on_settled>>

NotifierAddBlockListener ==
    /\ calls < MaxCalls
    /\ calls' = calls + 1
    /\ block_observers' = Append(block_observers, Len(block_observers))
    /\ call' = NewCall("add_block_listener")
    /\ UNCHANGED <<chain, pending_transaction, trans_observers, keypair, submitter, keyfile,
                   closures, on_settled, settled>>

NotifierNotifyBlockEvent ==
    /\ calls < MaxCalls
    /\ calls' = calls + 1
    /\ \E block \in NotifierBlocks, io_ok \in BOOLEAN :
          LET b == InvokeObservers(block_observers, block, io_ok, <<>>)
          IN  call' = [NewCall("notify_block_event") EXCEPT !.outcome = b.outcome,
                                                           !.events = b.ev]
    /\ UNCHANGED <<chain, pending_transaction, trans_observers, block_observers,
                   keypair, submitter, keyfile, closures, on_settled, settled>>

NextNotifier ==
    \/ NotifierSubmitTransaction
    \/ NotifierNotifyTransactionSettled
    \/ NotifierAddBlockListener
    \/ NotifierNotifyBlockEvent

SpecNotifier == Init /\ [][NextNotifier]_vars

\* ------------------------------------------------- verification of blocks
\* impl Serialize for BlockKeypair writes the empty string
BlockKeypairSerialize(key) == ""

\* serde_json::to_writer(&file, &block), and serde_json::from_str on its output
SerdeToJson(block) == [block EXCEPT !.signing_key = BlockKeypairSerialize(@)]

SerdeFromJson(json) == [json EXCEPT !.signing_key = BlockKeypairFromStr(@)]

\* a payload that differs from the one given
OtherPayload(payload) ==
    IF payload = Json("some transaction")
    THEN Json("Hello First Transaction")
    ELSE Json("some transaction")

\* a digest that differs from the one given
OtherDigest(digest) ==
    IF digest = EmptyDigest THEN HashDigest(Bincode(<<>>)) ELSE EmptyDigest

\* block.transactions[i] gets another payload; its hash, its signature and the
\* rest of the block stay as they were
MutateTransaction(block, i) ==
    [block EXCEPT !.transactions[i].payload = OtherPayload(@)]

HeaderFields ==
    {"parent_hash", "transactions_hash", "committer", "timestamp", "ordinal", "nonce"}

\* one header field gets another value; header.hash and the signature stay
MutateHeader(block, field) ==
    [block EXCEPT !.header[field] =
        CASE field = "parent_hash"       -> OtherDigest(@)
          [] field = "transactions_hash" -> OtherDigest(@)
          [] field = "committer"         -> Address(Public("mallory"))
          [] field = "timestamp"         -> @ + 1
          [] field = "ordinal"           -> @ + 1
          [] field = "nonce"             -> "header draw mutated"]

\* signing_key and signature are replaced by those of another keypair; the header,
\* and the committer it names, stay
Resign(block, key) ==
    [block EXCEPT !.signing_key = key,
                  !.signature = SignatureNew(format_header(block.header), key)]

\* the blocks a holder of `block` can hand to verify()
Tampered(block) ==
    {[tamper |-> "none", field |-> "", block |-> block]}
    \cup {[tamper |-> "transaction", field |-> "", block |-> MutateTransaction(block, i)] :
             i \in 1..Len(block.transactions)}
    \cup {[tamper |-> "header", field |-> f, block |-> MutateHeader(block, f)] :
             f \in HeaderFields}
    \cup {[tamper |-> "round_trip", field |-> "", block |-> SerdeFromJson(SerdeToJson(block))]}
    \cup {[tamper |-> "resigned", field |-> "", block |-> Resign(block, PeerKey)]}

\* block.verify() on a block read from blocks() and possibly changed since
VerifyBlock ==
    /\ calls < MaxCalls
    /\ calls' = calls + 1
    /\ \E i \in 1..Len(chain) :
          \E v \in Tampered(chain[i]) :
              call' = [op |-> "verify", original |-> chain[i], tamper |-> v.tamper,
                       field |-> v.field, block |-> v.block, result |-> verify(v.block)]
    /\ UNCHANGED <<chain, pending_transaction, trans_observers, block_observers,
                   keypair, submitter, keyfile, closures, on_settled, settled>>

\* Block { signing_key: keypair, ..Block::new(.., &other_keypair) }: blocks whose
\* signature was not made with the key they carry
ForgedBlocks(time, nonce) ==
    {[block EXCEPT !.signing_key = keypair] : block \in ExternalBlocks(time, nonce)}

AddForgedBlock ==
    /\ calls < MaxCalls
    /\ calls' = calls + 1
    /\ \E time \in Clock, io_ok \in BOOLEAN :
          \E block \in ForgedBlocks(time, HeaderNonce(Len(chain))) :
              add_block(block, io_ok, "add_block")
    /\ UNCHANGED <<pending_transaction, block_observers, keypair, submitter, keyfile, closures,
                   on_settled>>

NextVerify ==
    \/ SubmitTransaction
    \/ Save
    \/ VerifyBlock
    \/ AddForgedBlock

SpecVerify == Init /\ [][NextVerify]_vars

\* ------------------------------------------------ submissions and saves
\* a Blockchain on which only submit_transaction and save are called
NextSubmitSave ==
    \/ SubmitTransaction
    \/ Save

SpecSubmitSave == Init /\ [][NextSubmitSave]_vars

\* a Blockchain on which only submit_transaction, save and add_block are called
NextCommit ==
    \/ SubmitTransaction
    \/ Save
    \/ AddBlock

SpecCommit == Init /\ [][NextCommit]_vars

\* the transaction lists of the blocks save() may build in the current state
SaveOrders ==
    {SaveBlock(Last(chain), txs, keypair, time, HeaderNonce(Len(chain))).transactions :
        txs \in Orderings(pending_transaction), time \in Clock}

\* --------------------------------------------------- loading the keypair
\* the key file as the node may find it at start: absent, cut short, whole, or
\* followed by more bytes; whole files hold a keypair or bytes that decode to none
KeyFiles ==
    {NoFile, [exists |-> TRUE, len |-> 10, key |-> ""]}
    \cup {[exists |-> TRUE, len |-> l, key |-> k] :
             l \in {KeypairLength, 100}, k \in {LocalKey, "garbage"}}

\* Keypair::generate(): the keypair generated in the n-th call
GeneratedKey(n) == "generated " \o ToString(n)

InitKeyfile ==
    /\ keyfile \in KeyFiles
    /\ keypair = LocalKey
    /\ submitter = Address(Public(keypair))
    /\ chain = NewChain
    /\ trans_observers = EmptyMap
    /\ pending_transaction = {}
    /\ block_observers = <<WriteBlock>>
    /\ calls = 0
    /\ closures = 0
    /\ on_settled = EmptyMap
    /\ settled = <<>>
    /\ call = [op |-> "new", outcome |-> "returned", key |-> "", file |-> NoFile]

CreateEd25519Keypair ==
    /\ calls < MaxCalls
    /\ calls' = calls + 1
    /\ LET r == create_ed25519_keypair(keyfile, GeneratedKey(calls))
       IN  /\ keyfile' = r.file
           /\ call' = [op |-> "create_ed25519_keypair", outcome |-> r.outcome,
                       key |-> r.key, file |-> keyfile]
    /\ UNCHANGED <<chain, pending_transaction, trans_observers, block_observers,
                   keypair, submitter, closures, on_settled, settled>>

WriteKeypair ==
    /\ calls < MaxCalls
    /\ calls' = calls + 1
    /\ \E key \in {PeerKey, "garbage"} :
          /\ keyfile' = write_keypair(keyfile, key)
          /\ call' = [op |-> "write_keypair", outcome |-> "returned",
                      key |-> key, file |-> keyfile]
    /\ UNCHANGED <<chain, pending_transaction, trans_observers, block_observers,
                   keypair, submitter, closures, on_settled, settled>>

ReadKeypair ==
    /\ calls < MaxCalls
    /\ calls' = calls + 1
    /\ call' = [op |-> "read_keypair",
                outcome |-> IF read_keypair(keyfile).ok
                            THEN "returned" ELSE read_keypair(keyfile).err,
                key |-> read_keypair(keyfile).data, file |-> keyfile]
    /\ UNCHANGED <<chain, pending_transaction, trans_observers, block_observers,
                   keypair, submitter, keyfile, closures, on_settled, settled>>

NextKeyfile ==
    \/ CreateEd25519Keypair
    \/ WriteKeypair
    \/ ReadKeypair

SpecKeyfile == InitKeyfile /\ [][NextKeyfile]_vars

\* ----------------------------------------------------------------- claims
Commits == {"save", "add_block"}

\* the index at which a transaction first occurs in a list
FirstIndex(txs, t) == CHOOSE i \in 1..Len(txs) : txs[i] = t /\ \A j \in 1..(i - 1) : txs[j] # t

\* C1: after every save() the pending pool is empty and the block appended by that
\* call lists exactly the transactions that were in the pool when it was called,
\* each of them once.
C1_SaveDrainsPoolIntoBlock ==
    call.op = "save" =>
        /\ pending_transaction = {}
        /\ Len(chain) = call.len + 1
        /\ Range(Last(chain).transactions) = call.pool
        /\ Len(Last(chain).transactions) = Cardinality(call.pool)

C1_Witness ==
    /\ call.op = "save"
    /\ call.outcome = "returned"
    /\ Cardinality(call.pool) = 2
    /\ pending_transaction = {}

\* C2: the chain is append-only: a save() or add_block() step appends exactly one
\* block behind the blocks already there, which keep their values and indexes,
\* and a step of any other operation leaves the chain as it was.
C2_AppendOnly ==
    [][/\ call'.op \in Commits =>
            /\ Len(chain') = Len(chain) + 1
            /\ SubSeq(chain', 1, Len(chain)) = chain
       /\ call'.op \notin Commits => chain' = chain]_vars

C2_Witness ==
    /\ call.op = "add_block"
    /\ Len(chain) = 3
    /\ chain[1] = GENESIS_BLOCK

\* C3: in every reachable state the chain is non-empty and its first block is the
\* genesis block, of ordinal 0, so the tip that save() reads exists.
C3_GenesisAlwaysFirst ==
    /\ Len(chain) >= 1
    /\ chain[1] = GENESIS_BLOCK
    /\ chain[1].header.ordinal = 0

C3_Witness ==
    /\ call.op = "save"
    /\ Len(chain) = 3
    /\ chain[1] = GENESIS_BLOCK

\* C4: every block after the first names the header hash of its predecessor as
\* parent_hash and carries the predecessor's ordinal plus one.
C4_ChainLinked ==
    \A i \in 2..Len(chain) :
        /\ chain[i].header.parent_hash = chain[i - 1].header.hash
        /\ chain[i].header.ordinal = chain[i - 1].header.ordinal + 1

\* C5: no settlement closure is ever invoked twice, and a closure that has been
\* invoked is no longer registered in trans_observers.
C5_SettledAtMostOnce ==
    /\ \A i, j \in 1..Len(settled) : i # j => settled[i].target # settled[j].target
    /\ \A i \in 1..Len(settled) : \A t \in DOMAIN trans_observers :
          trans_observers[t] # settled[i].target

\* a transaction whose closure fired in an earlier call is committed again by
\* add_block, and nothing is invoked for it
C5_Witness ==
    /\ call.op = "add_block"
    /\ call.outcome = "returned"
    /\ \E t \in Range(Last(chain).transactions) :
          /\ t \in DOMAIN on_settled
          /\ t \notin DOMAIN call.registered
          /\ \E i \in 1..Len(settled) : settled[i].arg = t
          /\ \A i \in 1..Len(call.events) : call.events[i].arg # t

\* C6: when a save() returns, the chain is one block longer, and the closure given
\* to submit_transaction with each transaction that was pending has been invoked:
\* during this save() if it was still registered when save() was called.
C6_SaveSettlesPending ==
    (call.op = "save" /\ call.outcome = "returned") =>
        /\ Len(chain) = call.len + 1
        /\ \A t \in call.pool :
              /\ \E i \in 1..Len(settled) : settled[i].target = on_settled[t]
              /\ t \in DOMAIN call.registered =>
                    \E i \in 1..Len(call.events) :
                        call.events[i] = Event("settled", on_settled[t], t)

C6_Witness ==
    /\ call.op = "save"
    /\ call.outcome = "returned"
    /\ \E t \in call.pool :
          /\ t \in DOMAIN call.registered
          /\ \E i \in 1..Len(call.events) :
                call.events[i] = Event("settled", on_settled[t], t)

\* C7: every settlement closure is invoked with the transaction it was registered
\* under, the value submit_transaction returned: a closure never receives another
\* transaction.
C7_CallbackGetsItsTransaction ==
    \A i \in 1..Len(settled) :
        /\ settled[i].arg \in DOMAIN on_settled
        /\ on_settled[settled[i].arg] = settled[i].target

\* two transactions with the same payload are settled by one commit
C7_Witness ==
    /\ call.outcome = "returned"
    /\ \E i, j \in 1..Len(call.events) :
          /\ i # j
          /\ IsSettled(call.events[i]) /\ IsSettled(call.events[j])
          /\ call.events[i].arg.payload = call.events[j].arg.payload
          /\ on_settled[call.events[i].arg] = call.events[i].target

\* C8: in a commit (add_block, also when save() calls it) the block is on the
\* chain when the observers run, every block observer invocation comes before
\* every settlement invocation, and the settlements come in the order in which
\* the transactions first occur in the block; a commit that returns has run every
\* block observer and settled every transaction of the block that was registered.
C8_CommitOrder ==
    call.op \in Commits =>
        LET b   == BlockIn(call.events)
            s   == SettledIn(call.events)
            txs == Last(chain).transactions
        IN  /\ Len(chain) = call.len + 1
            /\ call.events = b \o s
            /\ \A i \in 1..Len(b) : b[i].arg = Last(chain)
            /\ \A i \in 1..Len(s) : s[i].arg \in Range(txs)
            /\ \A i, j \in 1..Len(s) :
                  i < j => FirstIndex(txs, s[i].arg) < FirstIndex(txs, s[j].arg)
            /\ call.outcome = "returned" =>
                  /\ Len(b) = Len(block_observers)
                  /\ {s[i].arg : i \in 1..Len(s)} = Range(txs) \cap DOMAIN call.registered

C8_Witness ==
    /\ call.op = "add_block"
    /\ call.outcome = "returned"
    /\ Len(BlockIn(call.events)) = 2
    /\ Len(SettledIn(call.events)) >= 1
    /\ call.events = BlockIn(call.events) \o SettledIn(call.events)

C10_DuplicateRegistrationRejected ==
    (call.op = "submit_transaction" /\ call.trans[1] \in DOMAIN call.registered) =>
        trans_observers = call.registered

\* C11: in every reachable state two entries of the pending pool that carry the
\* same transaction hash are the same entry.
C11_PoolKeyedByHash ==
    \A a, b \in pending_transaction : a.hash = b.hash => a = b

\* the same payload is pending twice, under two hashes
C11_Witness ==
    \E a, b \in pending_transaction :
        /\ a # b
        /\ a.payload = b.payload
        /\ a.hash # b.hash

\* C12: a save() called with an empty pool appends one block with no transactions,
\* the tip's ordinal plus one, the digest of the empty transaction list as
\* transactions_hash and a signature that verifies; the block observers are run
\* on it (all of them when the call returns) and no settlement closure is invoked.
C12_SaveWithEmptyPool ==
    (call.op = "save" /\ call.pool = {}) =>
        LET block == Last(chain)
            b     == BlockIn(call.events)
        IN  /\ Len(chain) = call.len + 1
            /\ block.transactions = <<>>
            /\ block.header.ordinal = chain[call.len].header.ordinal + 1
            /\ block.header.parent_hash = chain[call.len].header.hash
            /\ block.header.transactions_hash = HashDigest(Bincode(<<>>))
            /\ verify(block) = "Ok"
            /\ SettledIn(call.events) = <<>>
            /\ Len(b) >= 1
            /\ \A i \in 1..Len(b) : b[i].arg = block
            /\ call.outcome = "returned" => Len(b) = Len(block_observers)

\* an empty save() while a closure is still registered: the closure stays
C12_Witness ==
    /\ call.op = "save"
    /\ call.pool = {}
    /\ call.outcome = "returned"
    /\ DOMAIN call.registered # {}
    /\ trans_observers = call.registered
    /\ Last(chain).transactions = <<>>

\* C13: the block a save() builds, appends and hands to the block observers passes
\* verify(), names the orchestrator's Address as committer and carries the
\* signature of the orchestrator's keypair over its header hash.
C13_SavedBlockIsSigned ==
    call.op = "save" =>
        LET block == Last(chain)
            b     == BlockIn(call.events)
        IN  /\ verify(block) = "Ok"
            /\ block.header.committer = submitter
            /\ block.signing_key = keypair
            /\ block.signature = SignatureNew(Bincode(block.header.hash), keypair)
            /\ Len(b) >= 1
            /\ \A i \in 1..Len(b) : b[i].arg = block

C13_Witness ==
    /\ call.op = "save"
    /\ call.outcome = "returned"
    /\ call.pool # {}
    /\ Len(BlockIn(call.events)) = Len(block_observers)
    /\ verify(BlockIn(call.events)[1].arg) = "Ok"

\* C14: verify() of a block that Block::new built and in which a transaction was
\* changed afterwards, header and signature left alone, reports a
\* transactions-root mismatch.
C14_MutatedTransactionIsRootMismatch ==
    (call.op = "verify" /\ call.tamper = "transaction" /\ verify(call.original) = "Ok") =>
        call.result = "Transactions root mismatch"

\* C15: verify() rejects a block in which a header field other than the stored
\* hash was changed after construction, stored hash and signature left alone.
C15_MutatedHeaderRejected ==
    (call.op = "verify" /\ call.tamper = "header" /\ verify(call.original) = "Ok") =>
        call.result # "Ok"

\* C16: a block written as JSON and read back has the header hash it had, and if
\* it passed verify() before, it passes verify() after.
C16_RoundTripVerifies ==
    (call.op = "verify" /\ call.tamper = "round_trip") =>
        /\ call.block.header.hash = call.original.header.hash
        /\ verify(call.original) = "Ok" => call.result = "Ok"

\* C17: an add_block() that appended a block, or invoked a block observer or a
\* settlement closure, was given a block that passes verify(): a block that fails
\* verification changes nothing and notifies nobody.
C17_UnverifiedBlockNotApplied ==
    (call.op = "add_block" /\ (Len(chain) # call.len \/ call.events # <<>>)) =>
        verify(Last(chain)) = "Ok"

\* C18: every commit, also one during which write_block fails, returns to its
\* caller with the new block at the tip, so that the caller goes on to submit and
\* save.
C18_PersistenceFailureTolerated ==
    call.op \in Commits =>
        /\ call.outcome = "returned"
        /\ Len(chain) = call.len + 1

\* where a transaction occurs in the blocks that save() built
SavedOccurrences(t) ==
    {p \in UNION {{<<i, j>> : j \in 1..Len(chain[i].transactions)} : i \in 1..Len(chain)} :
        /\ chain[p[1]].signing_key = keypair
        /\ chain[p[1]].transactions[p[2]] = t}

\* C19: whatever the order of the submit_transaction and save() calls, a submitted
\* transaction is either still pending and in no block save() built, or no longer
\* pending and at exactly one place in exactly one block save() built.
C19_SubmittedExactlyOnce ==
    \A t \in DOMAIN on_settled :
        IF t \in pending_transaction
        THEN SavedOccurrences(t) = {}
        ELSE Cardinality(SavedOccurrences(t)) = 1

\* submit, save, submit, save: two blocks, one transaction each
C19_Witness ==
    /\ call.op = "save"
    /\ pending_transaction = {}
    /\ \E i, j \in 2..Len(chain) :
          /\ i < j
          /\ chain[i].signing_key = keypair /\ chain[j].signing_key = keypair
          /\ Len(chain[i].transactions) = 1 /\ Len(chain[j].transactions) = 1
          /\ chain[i].transactions # chain[j].transactions

\* C20: verify() fails for a block whose signature and signing_key belong to a key
\* that is not the key of the committer its header names.
C20_SignatureCheckedAgainstCommitter ==
    (/\ call.op = "verify"
     /\ call.tamper = "resigned"
     /\ call.block.header.committer # Address(Public(call.block.signing_key))) =>
        call.result # "Ok"

\* how often a call's events invoke a block observer
Invocations(events, observer) ==
    Cardinality({i \in 1..Len(events) : IsBlock(events[i]) /\ events[i].target = observer})

C22_PersistenceObserverFirst ==
    /\ Len(block_observers) >= 1
    /\ block_observers[1] = WriteBlock
    /\ \A i \in 2..Len(block_observers) : block_observers[i] # WriteBlock
    /\ call.op = "new" => block_observers = <<WriteBlock>>
    /\ call.op \in Commits =>
          /\ call.events # <<>>
          /\ call.events[1] = Event("block", WriteBlock, Last(chain))
          /\ build_path_for_block(call.events[1].arg) =
                <<"temp_dir", Last(chain).header.hash, ".json">>
          /\ \A i \in 2..Len(call.events) : call.events[i].target # WriteBlock
                                              \/ IsSettled(call.events[i])

C22_Witness ==
    /\ call.op = "save"
    /\ call.outcome = "returned"
    /\ Len(call.events) >= 3
    /\ call.events[1].target = WriteBlock
    /\ IsBlock(call.events[2])
    /\ IsSettled(call.events[3])

\* C23: notify_transaction_settled(t) for a t that has no registration invokes
\* nothing and changes nothing, and an add_block of a block none of whose
\* transactions has a registration invokes no settlement closure and leaves
\* trans_observers and the pending pool as they were.
C23_UnregisteredSettlementIsNoOp ==
    [][/\ (/\ call'.op = "notify_transaction_settled"
           /\ call'.trans[1] \notin DOMAIN trans_observers) =>
             /\ call'.events = <<>>
             /\ UNCHANGED <<trans_observers, pending_transaction, settled, chain,
                            block_observers>>
       /\ (/\ call'.op = "add_block"
           /\ Range(Last(chain').transactions) \cap DOMAIN trans_observers = {}) =>
             /\ SettledIn(call'.events) = <<>>
             /\ UNCHANGED <<trans_observers, pending_transaction, settled>>]_vars

\* a transaction without registration is settled while another closure is registered
C23_Witness ==
    /\ call.op = "notify_transaction_settled"
    /\ call.trans[1] \notin DOMAIN call.registered
    /\ DOMAIN call.registered # {}
    /\ call.events = <<>>
    /\ trans_observers = call.registered
    /\ pending_transaction = call.pool

\* C24: in every reachable state the order in which save() would list the pending
\* transactions in its block is determined: all the blocks save() may build list
\* them in one and the same order.
C24_SaveOrderDeterministic ==
    Cardinality(SaveOrders) = 1

\* hash and signature of a transaction are those of its fields and the
\* orchestrator's keypair
WellFormedTransaction(t) ==
    /\ t.submitter = submitter
    /\ t.hash = HashDigest(Bincode([submitter |-> t.submitter, timestamp |-> t.timestamp,
                                    payload |-> t.payload, nonce |-> t.nonce]))
    /\ t.signature = SignatureNew(Bincode(t.hash), keypair)

\* C25: every transaction submit_transaction returned names the orchestrator as
\* submitter, carries the digest of its submitter, timestamp, payload and nonce as
\* hash and the orchestrator's signature over that hash; the entry of the pending
\* pool, the key of the closure table and the entry of the block save() builds
\* are that same value.
C25_TransactionWellFormed ==
    /\ \A t \in DOMAIN on_settled : WellFormedTransaction(t)
    /\ pending_transaction \subseteq DOMAIN on_settled
    /\ DOMAIN trans_observers \subseteq DOMAIN on_settled
    /\ \A i \in 1..Len(chain) :
          chain[i].signing_key = keypair =>
              Range(chain[i].transactions) \subseteq DOMAIN on_settled
    /\ call.op = "submit_transaction" =>
          /\ WellFormedTransaction(call.trans[1])
          /\ call.trans[1] \in pending_transaction
          /\ call.trans[1] \in DOMAIN trans_observers

C25_Witness ==
    /\ call.op = "submit_transaction"
    /\ call.trans[1] \in pending_transaction
    /\ Len(chain) >= 2
    /\ chain[2].signing_key = keypair
    /\ \E t \in Range(chain[2].transactions) :
          t \in DOMAIN on_settled /\ WellFormedTransaction(t)

\* a digest whose bytes are all zero
ZeroDigest == <<"digest", <<"zero">>>>

\* C26, as claimed: right after Blockchain::new the chain is the genesis constant
\* alone, of ordinal 0 and with the all-zero digest as parent_hash, and the
\* pending pool and the closure table are empty.
C26_GenesisParentAllZero ==
    call.op = "new" =>
        /\ chain = <<GENESIS_BLOCK>>
        /\ chain[1].header.ordinal = 0
        /\ chain[1].header.parent_hash = ZeroDigest
        /\ pending_transaction = {}
        /\ trans_observers = EmptyMap

\* C26, amended: right after Blockchain::new the chain is the genesis constant
\* alone, of ordinal 0 and with the digest of the empty byte string as
\* parent_hash, and the pending pool and the closure table are empty.
C26_FreshChain ==
    call.op = "new" =>
        /\ chain = <<GENESIS_BLOCK>>
        /\ Len(chain) = 1
        /\ chain[1].header.ordinal = 0
        /\ chain[1].header.parent_hash = EmptyDigest
        /\ pending_transaction = {}
        /\ trans_observers = EmptyMap

C26_Witness ==
    /\ call.op = "new"
    /\ calls = 0
    /\ chain[1].header.parent_hash = HashDigest(<<>>)

\* a key file that is there and holds no keypair: too short, or not decodable
Malformed(file) ==
    /\ file.exists
    /\ file.len < KeypairLength \/ ~KeypairDecode(file.key).ok

\* C27: create_ed25519_keypair on a malformed key file fails, and leaves the file
\* as it found it: it does not return a newly generated keypair written over it.
C27_MalformedKeyfileIsFatal ==
    (call.op = "create_ed25519_keypair" /\ Malformed(call.file)) =>
        /\ call.outcome # "returned"
        /\ keyfile = call.file

\* C28: when only submit_transaction and save are called, the transactions with a
\* registered closure are the pending ones, and after a save() there is none.
C28_TableMatchesPool ==
    /\ DOMAIN trans_observers = pending_transaction
    /\ call.op = "save" => trans_observers = EmptyMap /\ pending_transaction = {}

\* C29: when only submit_transaction, save and add_block are called, no pending
\* transaction is in a block of the chain, and no transaction is in two blocks
\* that save() built.
C29_CommittedNotPending ==
    /\ \A t \in pending_transaction :
          \A i \in 1..Len(chain) : t \notin Range(chain[i].transactions)
    /\ \A t \in DOMAIN on_settled : Cardinality(SavedOccurrences(t)) <= 1

\* C30: submit_transaction changes neither the chain nor the block observers and
\* invokes nothing; it adds the new transaction to the pending pool and to the
\* closure table and leaves their other entries alone. add_block_listener changes
\* neither the chain nor the pool nor the closure table and invokes nothing, the
\* new listener included; it adds one block observer.
C30_NoCommitEffects ==
    [][/\ call'.op = "submit_transaction" =>
             /\ UNCHANGED <<chain, block_observers, settled>>
             /\ call'.events = <<>>
             /\ call'.trans[1] \notin pending_transaction
             /\ pending_transaction' = pending_transaction \cup {call'.trans[1]}
             /\ DOMAIN trans_observers' = DOMAIN trans_observers \cup {call'.trans[1]}
             /\ \A t \in DOMAIN trans_observers : trans_observers'[t] = trans_observers[t]
       /\ call'.op = "add_block_listener" =>
             /\ UNCHANGED <<chain, pending_transaction, trans_observers, settled>>
             /\ call'.events = <<>>
             /\ Len(block_observers') = Len(block_observers) + 1]_vars

\* a listener is added to a chain that already has a committed block
C30_Witness ==
    /\ call.op = "add_block_listener"
    /\ call.len >= 2
    /\ call.pool # {}
    /\ call.events = <<>>
    /\ Len(block_observers) = 2

\* C31: a commit goes through the whole settlement protocol also when a block
\* observer fails in it: every block observer is invoked once, the closure of
\* every transaction of the block that was registered is invoked, and so no
\* submitted transaction is out of the pool and in a block save() built with its
\* closure never invoked.
C31_FailingObserverDoesNotStopSettlement ==
    /\ call.op \in Commits =>
          /\ \A k \in 1..Len(block_observers) :
                Invocations(call.events, block_observers[k]) = 1
          /\ \A t \in Range(Last(chain).transactions) \cap DOMAIN call.registered :
                \E i \in 1..Len(call.events) :
                    call.events[i] = Event("settled", call.registered[t], t)
    /\ \A t \in DOMAIN on_settled :
          (t \notin pending_transaction /\ SavedOccurrences(t) # {}) =>
              \E i \in 1..Len(settled) : settled[i].arg = t

=============================================================================
